---- MODULE Spec2Model ----
(***************************************************************************)
(* Model of judge/views/organization.py: the organization views of the     *)
(* judge site (list/detail/members, join, leave, create, edit).            *)
(*                                                                         *)
(* Every view is modelled as the chain of dispatch()/get()/handle() calls  *)
(* the class hierarchy produces, each call an operator from the state      *)
(* before the call to an outcome [resp, st]: the response (or the raised   *)
(* exception) and the state of the database and the cache after it.        *)
(***************************************************************************)
EXTENDS Integers, Sequences, FiniteSets, TLC

VARIABLES profiles, orgs, cache, clock, request, response, procs

vars == <<profiles, orgs, cache, clock, request, response, procs>>

----------------------------------------------------------------------------
(* Bounds of the model *)

NumProfiles == 2
MaxOrgs == 2
MaxClock == 2
MaxProcs == 2

----------------------------------------------------------------------------
(* Values *)

\* Python's None, for profile.organization_id and organization_join_time.
\* Organization ids start at 1 and the clock starts at 1.
None == 0

\* the reputation threshold of NewOrganization.dispatch
MinPoints == 50

\* a cache entry that is not there (cache.get returns None)
Absent == -1

Profiles == 1..NumProfiles
Anonymous == "AnonymousUser"
Users == {<<"profile", p>> : p \in Profiles} \cup {<<Anonymous>>}

\* who asks for the pages that never look at request.user
Visitors == {<<Anonymous>>, <<"profile", 1>>}

is_authenticated(user) == user[1] = "profile"

Keys == {"a", "b"}
\* reputation on either side of the threshold
PointsValues == {MinPoints - 1, MinPoints}

NoForm == [name |-> "", key |-> "", about |-> ""]
NewForms == [name : {"n2", ""}, key : Keys, about : {"t1"}]
EditForms == [name : {"n2", ""}, key : {""}, about : {"t2"}]
FormsOf(method, forms) == IF method = "POST" THEN forms ELSE {NoForm}

\* the record of the database and the cache a handler works on
St == [profiles |-> profiles, orgs |-> orgs, cache |-> cache, clock |-> clock]

Out(resp, st) == [resp |-> resp, st |-> st]

\* an exception propagating out of a call
Raise(exc) == [kind |-> "raise", exc |-> exc]

IsRaise(out, exc) == out.resp.kind = "raise" /\ out.resp.exc = exc

HttpResponseRedirect(to) == [kind |-> "redirect", to |-> to]

reverse_organization_home(key) == <<"organization_home", key>>

TemplateResponse(template) == [kind |-> "page", template |-> template]

generic_message(title, message) ==
    [kind |-> "message", title |-> title, message |-> message]

redirect_to_login == [kind |-> "redirect", to |-> <<"login">>]

make_template_fragment_key(id) == id

----------------------------------------------------------------------------
(* Lookups *)

\* the Organization ids whose key is key (queryset.filter(key=key))
OrgsByKey(st, key) == {i \in DOMAIN st.orgs : st.orgs[i].key = key}

\* SingleObjectMixin.get_object: the record of that key, or Http404
get_object(st, key) ==
    IF OrgsByKey(st, key) = {}
    THEN Out(Raise("Http404"), st)
    ELSE Out([kind |-> "object", id |-> CHOOSE i \in OrgsByKey(st, key) : TRUE], st)

\* request.user.profile: AnonymousUser has no profile attribute
HasProfile(user) == is_authenticated(user)

ProfileOf(user) == user[2]

MemberCount(ps, o) == Cardinality({p \in DOMAIN ps : ps[p].organization = o})

----------------------------------------------------------------------------
(* organization_not_found *)

organization_not_found(key) ==
    IF key # ""
    THEN generic_message("No such organization",
                         <<"Could not find an organization with the key", key>>)
    ELSE generic_message("No such organization",
                         <<"Could not find such organization.">>)

----------------------------------------------------------------------------
(* Requests and view objects *)

Methods == {"GET", "POST"}

Request(method, user, form) == [method |-> method, user |-> user, form |-> form]

\* View.as_view: the view object gets request and kwargs, and no attribute
\* named method
ViewObject(cls, req, key) == [cls |-> cls, request |-> req, kwargs |-> [key |-> key]]

----------------------------------------------------------------------------
(* JoinOrganization.handle, LeaveOrganization.handle.  The response None  *)
(* is the method falling off its end.                                      *)

NoResponse == [kind |-> "None"]

JoinOrganization_handle(st, org, p) ==
    IF st.profiles[p].organization # None
    THEN Out(generic_message("Joining organization",
                             <<"You are already in an organization.">>), st)
    ELSE Out(NoResponse,
             [st EXCEPT !.profiles[p].organization = org,
                        !.profiles[p].organization_join_time = st.clock,
                        !.cache[make_template_fragment_key(org)] = Absent])

LeaveOrganization_handle(st, org, p) ==
    IF org # st.profiles[p].organization
    THEN Out(generic_message("Leaving organization",
                             <<"You are not in", st.orgs[org].key>>), st)
    ELSE Out(NoResponse,
             [st EXCEPT !.profiles[p].organization = None,
                        !.profiles[p].organization_join_time = None,
                        !.cache[make_template_fragment_key(org)] = Absent])

handle(view, st, org, p) ==
    IF view.cls = "JoinOrganization" THEN JoinOrganization_handle(st, org, p)
    ELSE IF view.cls = "LeaveOrganization" THEN LeaveOrganization_handle(st, org, p)
    ELSE Out(Raise("NotImplementedError"), st)

\* OrganizationMembershipChange.get
OrganizationMembershipChange_get(view, req, st) ==
    LET got == get_object(st, view.kwargs.key) IN
    IF IsRaise(got, "Http404")
    THEN Out(organization_not_found(view.kwargs.key), st)
    ELSE LET out == handle(view, st, got.resp.id, ProfileOf(req.user)) IN
         IF out.resp # NoResponse
         THEN out
         ELSE Out(HttpResponseRedirect(reverse_organization_home(st.orgs[got.resp.id].key)),
                  out.st)

----------------------------------------------------------------------------
(* The generic views the classes inherit their get and post from *)

\* ListView.get of OrganizationList
OrganizationList_get(view, req, st) == Out(TemplateResponse("organizations.jade"), st)

\* DetailView.get of OrganizationHome and OrganizationUsers
DetailView_get(view, req, st) ==
    LET got == get_object(st, view.kwargs.key) IN
    IF IsRaise(got, "Http404")
    THEN got
    ELSE Out(TemplateResponse(IF view.cls = "OrganizationHome"
                              THEN "organization.jade" ELSE "users.jade"), st)

\* the model form: name is required, and on creation the key is unique
form_is_valid(st, form, creating) ==
    /\ form.name # ""
    /\ creating => (form.key # "" /\ OrgsByKey(st, form.key) = {})

\* NewOrganization.form_valid on top of CreateView.get and CreateView.post
NewOrganization_get(view, req, st) == Out(TemplateResponse("new_organization.jade"), st)

NewOrganization_post(view, req, st) ==
    IF form_is_valid(st, req.form, TRUE)
    THEN LET object == [key |-> req.form.key, name |-> req.form.name,
                        about |-> req.form.about,
                        registrant |-> ProfileOf(view.request.user)]
         IN Out(HttpResponseRedirect(reverse_organization_home(object.key)),
                [st EXCEPT !.orgs = Append(@, object)])
    ELSE Out(TemplateResponse("new_organization.jade"), st)

\* EditOrganization.get_object: the permission check, and no return statement
EditOrganization_get_object(view, req, st) ==
    LET got == get_object(st, view.kwargs.key) IN
    IF IsRaise(got, "Http404")
    THEN got
    ELSE IF got.resp.id # st.profiles[ProfileOf(view.request.user)].organization
         THEN Out(Raise("PermissionDenied"), st)
         ELSE Out([kind |-> "object", id |-> None], st)

\* UpdateView.get and UpdateView.post on the object get_object returned;
\* a form whose instance is None builds and saves a new record
EditOrganization_get(view, req, st) ==
    LET got == EditOrganization_get_object(view, req, st) IN
    IF got.resp.kind = "raise"
    THEN got
    ELSE Out(TemplateResponse("edit_organization.jade"), st)

EditOrganization_post(view, req, st) ==
    LET got == EditOrganization_get_object(view, req, st) IN
    IF got.resp.kind = "raise"
    THEN got
    ELSE IF ~form_is_valid(st, req.form, FALSE)
    THEN Out(TemplateResponse("edit_organization.jade"), st)
    ELSE IF got.resp.id = None
    THEN Out(HttpResponseRedirect(reverse_organization_home("")),
             [st EXCEPT !.orgs = Append(@, [key |-> "", name |-> req.form.name,
                                            about |-> req.form.about,
                                            registrant |-> None])])
    ELSE Out(HttpResponseRedirect(reverse_organization_home(st.orgs[got.resp.id].key)),
             [st EXCEPT !.orgs[got.resp.id].name = req.form.name,
                        !.orgs[got.resp.id].about = req.form.about])

http_method_not_allowed == [kind |-> "not_allowed"]

\* View.dispatch: reads request.method and calls the handler of that name
View_dispatch(view, req, st) ==
    IF "method" \notin DOMAIN req
    THEN Out(Raise("AttributeError"), st)
    ELSE IF view.cls = "OrganizationList" /\ req.method = "GET"
    THEN OrganizationList_get(view, req, st)
    ELSE IF view.cls \in {"OrganizationHome", "OrganizationUsers"} /\ req.method = "GET"
    THEN DetailView_get(view, req, st)
    ELSE IF view.cls \in {"JoinOrganization", "LeaveOrganization"} /\ req.method = "GET"
    THEN OrganizationMembershipChange_get(view, req, st)
    ELSE IF view.cls = "NewOrganization" /\ req.method = "GET"
    THEN NewOrganization_get(view, req, st)
    ELSE IF view.cls = "NewOrganization" /\ req.method = "POST"
    THEN NewOrganization_post(view, req, st)
    ELSE IF view.cls = "EditOrganization" /\ req.method = "GET"
    THEN EditOrganization_get(view, req, st)
    ELSE IF view.cls = "EditOrganization" /\ req.method = "POST"
    THEN EditOrganization_post(view, req, st)
    ELSE Out(http_method_not_allowed, st)

----------------------------------------------------------------------------
(* The dispatch methods of this file, in the order the classes chain them *)

\* OrganizationMixin.dispatch: calls the next dispatch with self in the
\* place of the request, and maps Http404 to the not-found message
OrganizationMixin_dispatch(view, req, st) ==
    LET out == View_dispatch(view, view, st) IN
    IF IsRaise(out, "Http404")
    THEN Out(organization_not_found(view.kwargs.key), out.st)
    ELSE out

\* LoginRequiredMixin.dispatch: login_required around the next dispatch,
\* which is OrganizationMixin's for join, leave and edit and View's for create
LoginRequiredMixin_dispatch(view, req, st) ==
    IF ~is_authenticated(req.user)
    THEN Out(redirect_to_login, st)
    ELSE IF view.cls = "NewOrganization"
    THEN View_dispatch(view, req, st)
    ELSE OrganizationMixin_dispatch(view, req, st)

\* NewOrganization.dispatch without its elif branch
NewOrganization_dispatch_no_membership_test(view, req, st) ==
    IF ~HasProfile(req.user)
    THEN Out(Raise("AttributeError"), st)
    ELSE LET profile == st.profiles[ProfileOf(req.user)] IN
         IF profile.points < MinPoints
         THEN Out(generic_message("Can't add organization",
                                  <<"You need 50 points to add an organization.">>), st)
         ELSE LoginRequiredMixin_dispatch(view, req, st)

\* NewOrganization.dispatch
NewOrganization_dispatch(view, req, st) ==
    IF ~HasProfile(req.user)
    THEN Out(Raise("AttributeError"), st)
    ELSE LET profile == st.profiles[ProfileOf(req.user)] IN
         IF profile.points < MinPoints
         THEN Out(generic_message("Can't add organization",
                                  <<"You need 50 points to add an organization.">>), st)
         ELSE IF profile.organization # None
         THEN Out(generic_message("Can't add organization",
                                  <<"You are already in an organization.">>), st)
         ELSE LoginRequiredMixin_dispatch(view, req, st)

\* EditOrganization.dispatch
EditOrganization_dispatch(view, req, st) ==
    LET out == LoginRequiredMixin_dispatch(view, req, st) IN
    IF IsRaise(out, "PermissionDenied")
    THEN Out(generic_message("Can't edit organization",
                             <<"You are not in this organization.">>), out.st)
    ELSE out

\* the view function as_view returns: a new view object and its dispatch
as_view(cls, req, key, st) ==
    LET view == ViewObject(cls, req, key) IN
    IF cls = "OrganizationList" THEN View_dispatch(view, req, st)
    ELSE IF cls \in {"OrganizationHome", "OrganizationUsers"}
    THEN OrganizationMixin_dispatch(view, req, st)
    ELSE IF cls \in {"JoinOrganization", "LeaveOrganization"}
    THEN LoginRequiredMixin_dispatch(view, req, st)
    ELSE IF cls = "NewOrganization" THEN NewOrganization_dispatch(view, req, st)
    ELSE EditOrganization_dispatch(view, req, st)


----------------------------------------------------------------------------
(* The state after construction: one organization, profiles in it or in   *)
(* none, nothing cached, no request served.                                *)

OrgIds == 1..MaxOrgs

NoRequest == [cls |-> "", method |-> "", user |-> <<Anonymous>>, key |-> "", form |-> NoForm]

ProfileRecords ==
    {[points |-> pts, organization |-> o,
      organization_join_time |-> IF o = None THEN None ELSE 1] :
        pts \in PointsValues, o \in {None, 1}}

Init ==
    /\ orgs = <<[key |-> "a", name |-> "n1", about |-> "t1", registrant |-> 1]>>
    /\ profiles \in [Profiles -> ProfileRecords]
    /\ cache = [i \in OrgIds |-> Absent]
    /\ clock = 1
    /\ request = NoRequest
    /\ response = NoResponse
    /\ procs = <<>>

----------------------------------------------------------------------------
(* One action per endpoint: the request is served by the view as a whole *)

Serve(cls, method, user, key, form) ==
    LET out == as_view(cls, Request(method, user, form), key, St) IN
    /\ Len(out.st.orgs) <= MaxOrgs
    /\ request' = [cls |-> cls, method |-> method, user |-> user, key |-> key,
                   form |-> form]
    /\ response' = out.resp
    /\ profiles' = out.st.profiles
    /\ orgs' = out.st.orgs
    /\ cache' = out.st.cache
    /\ clock' = out.st.clock
    /\ UNCHANGED procs

ListRequest(user) == Serve("OrganizationList", "GET", user, "", NoForm)

HomeRequest(user, key) == Serve("OrganizationHome", "GET", user, key, NoForm)

UsersRequest(user, key) == Serve("OrganizationUsers", "GET", user, key, NoForm)

JoinRequest(user, key) == Serve("JoinOrganization", "GET", user, key, NoForm)

LeaveRequest(user, key) == Serve("LeaveOrganization", "GET", user, key, NoForm)

NewRequest(method, user, form) == Serve("NewOrganization", method, user, "", form)

EditRequest(method, user, key, form) == Serve("EditOrganization", method, user, key, form)

\* the org_member_count template fragment: a hit leaves the cache alone, a
\* miss counts the members and stores the count
RenderMemberCount(o) ==
    /\ o \in DOMAIN orgs
    /\ cache[o] = Absent
    /\ cache' = [cache EXCEPT ![o] = MemberCount(profiles, o)]
    /\ UNCHANGED <<profiles, orgs, clock, request, response, procs>>

Next ==
    \/ \E u \in Visitors : ListRequest(u)
    \/ \E u \in Visitors, k \in Keys : HomeRequest(u, k)
    \/ \E u \in Visitors, k \in Keys : UsersRequest(u, k)
    \/ \E u \in Users, k \in Keys : JoinRequest(u, k)
    \/ \E u \in Users, k \in Keys : LeaveRequest(u, k)
    \/ \E m \in Methods, u \in Users : \E f \in FormsOf(m, NewForms) : NewRequest(m, u, f)
    \/ \E m \in Methods, u \in Users, k \in Keys :
          \E f \in FormsOf(m, EditForms) : EditRequest(m, u, k, f)
    \/ \E o \in OrgIds : RenderMemberCount(o)

Spec == Init /\ [][Next]_vars


----------------------------------------------------------------------------
(* Properties of the endpoints, each over the steps of one endpoint *)

AuthUsers == {u \in Users : is_authenticated(u)}

OrgOfKey(key) == CHOOSE i \in OrgsByKey(St, key) : TRUE

KeyExists(key) == OrgsByKey(St, key) # {}

DatabaseUnchanged == UNCHANGED <<profiles, orgs, cache>>

\* C1: a join request by an authenticated profile with no organization, for
\* an existing key, sets profile.organization to that organization and
\* organization_join_time to a time, deletes the member-count cache entry of
\* the organization and answers with a redirect to its home page.
C1_JoinSucceeds ==
    [][\A u \in AuthUsers, k \in Keys :
         (/\ JoinRequest(u, k)
          /\ KeyExists(k)
          /\ profiles[ProfileOf(u)].organization = None)
         => (/\ profiles'[ProfileOf(u)].organization = OrgOfKey(k)
             /\ profiles'[ProfileOf(u)].organization_join_time # None
             /\ cache'[OrgOfKey(k)] = Absent
             /\ response' = HttpResponseRedirect(reverse_organization_home(k)))]_vars

\* C2: a leave request by an authenticated profile whose organization is the
\* target clears profile.organization and organization_join_time, deletes
\* the member-count cache entry and answers with a redirect to the home page.
C2_LeaveSucceeds ==
    [][\A u \in AuthUsers, k \in Keys :
         (/\ LeaveRequest(u, k)
          /\ KeyExists(k)
          /\ profiles[ProfileOf(u)].organization = OrgOfKey(k))
         => (/\ profiles'[ProfileOf(u)].organization = None
             /\ profiles'[ProfileOf(u)].organization_join_time = None
             /\ cache'[OrgOfKey(k)] = Absent
             /\ response' = HttpResponseRedirect(reverse_organization_home(k)))]_vars

\* C3: a join request by a profile that already has an organization changes
\* neither the profile nor the cache and answers with the message "You are
\* already in an organization.".
C3_JoinRejected ==
    [][\A u \in AuthUsers, k \in Keys :
         (/\ JoinRequest(u, k)
          /\ KeyExists(k)
          /\ profiles[ProfileOf(u)].organization # None)
         => (/\ DatabaseUnchanged
             /\ response' = generic_message("Joining organization",
                                <<"You are already in an organization.">>))]_vars

\* C4: a leave request for an organization the profile is not in changes
\* neither the profile nor the cache and answers with the message 'You are
\* not in "<key>".'.
C4_LeaveRejected ==
    [][\A u \in AuthUsers, k \in Keys :
         (/\ LeaveRequest(u, k)
          /\ KeyExists(k)
          /\ profiles[ProfileOf(u)].organization # OrgOfKey(k))
         => (/\ DatabaseUnchanged
             /\ response' = generic_message("Leaving organization",
                                <<"You are not in", k>>))]_vars

CanCreate(u) ==
    /\ is_authenticated(u)
    /\ profiles[ProfileOf(u)].points >= MinPoints
    /\ profiles[ProfileOf(u)].organization = None

\* C5: a create request (GET or POST) by an authenticated profile with fewer
\* than 50 points or with an organization creates no Organization record and
\* answers with a "Can't add organization" message; a create request that
\* shows the form or creates a record comes from a profile with at least 50
\* points and no organization.
C5_CreateGated ==
    [][(/\ request'.cls = "NewOrganization"
        /\ NewRequest(request'.method, request'.user, request'.form))
       => (/\ (is_authenticated(request'.user) /\ ~CanCreate(request'.user))
              => (/\ orgs' = orgs
                  /\ response'.kind = "message"
                  /\ response'.title = "Can't add organization")
           /\ (orgs' # orgs \/ response'.kind \in {"page", "redirect"})
              => CanCreate(request'.user))]_vars

\* a create request of a profile below the threshold was answered with the
\* rejection message
C5_Witness ==
    /\ request.cls = "NewOrganization"
    /\ request.method = "POST"
    /\ is_authenticated(request.user)
    /\ profiles[ProfileOf(request.user)].points < MinPoints
    /\ profiles[ProfileOf(request.user)].organization = None
    /\ form_is_valid(St, request.form, TRUE)
    /\ response.kind = "message"

\* C6: an edit request (GET or POST) for organization O by an authenticated
\* profile whose organization is not O changes no Organization record and
\* answers with the message "You are not in this organization.".
C6_EditRejected ==
    [][\A m \in Methods, u \in AuthUsers, k \in Keys : \A f \in FormsOf(m, EditForms) :
         (/\ EditRequest(m, u, k, f)
          /\ KeyExists(k)
          /\ profiles[ProfileOf(u)].organization # OrgOfKey(k))
         => (/\ orgs' = orgs
             /\ response' = generic_message("Can't edit organization",
                                <<"You are not in this organization.">>))]_vars

\* C7: a valid edit submitted by a member of organization O gives O the
\* submitted name and about, and changes nothing else of O or of any other
\* Organization record.
C7_EditMutatesTarget ==
    [][\A u \in AuthUsers, k \in Keys, f \in EditForms :
         (/\ EditRequest("POST", u, k, f)
          /\ KeyExists(k)
          /\ profiles[ProfileOf(u)].organization = OrgOfKey(k)
          /\ form_is_valid(St, f, FALSE))
         => orgs' = [orgs EXCEPT ![OrgOfKey(k)].name = f.name,
                                 ![OrgOfKey(k)].about = f.about]]_vars

\* C8: for a key that matches no Organization record, the detail and the
\* member-list endpoints, and the join and leave endpoints for a logged-in
\* user, answer with the "No such organization" message naming the key and
\* change no profile, organization or cache entry.
C8_NotFoundMessage ==
    [][\A u \in Users, k \in Keys :
         (/\ ~KeyExists(k)
          /\ \/ HomeRequest(u, k)
             \/ UsersRequest(u, k)
             \/ is_authenticated(u) /\ (JoinRequest(u, k) \/ LeaveRequest(u, k)))
         => (/\ DatabaseUnchanged
             /\ response' = generic_message("No such organization",
                                <<"Could not find an organization with the key", k>>))]_vars

\* C9: a request of an unauthenticated user to the join, leave, create or
\* edit endpoint is answered with the redirect to login, raises nothing and
\* changes no profile, organization or cache entry.
C9_LoginFirst ==
    [][\A m \in Methods, k \in Keys :
         (\/ JoinRequest(<<Anonymous>>, k)
          \/ LeaveRequest(<<Anonymous>>, k)
          \/ \E f \in FormsOf(m, NewForms) : NewRequest(m, <<Anonymous>>, f)
          \/ \E f \in FormsOf(m, EditForms) : EditRequest(m, <<Anonymous>>, k, f))
         => (/\ DatabaseUnchanged
             /\ response' = redirect_to_login)]_vars


----------------------------------------------------------------------------
(* The membership handlers and the member-count fragment step by step.     *)
(* Each process is one call of OrganizationMembershipChange.get from the   *)
(* point where it has the organization and loads request.user.profile, or  *)
(* one render of the org_member_count fragment; steps of different         *)
(* processes interleave.  A process keeps its own copy of the profile row, *)
(* and save() writes that copy back.                                       *)

NoProfile == [points |-> 0, organization |-> None, organization_join_time |-> None]

Proc(kind, pc, p, org, profile, count) ==
    [kind |-> kind, pc |-> pc, p |-> p, org |-> org, profile |-> profile, count |-> count]

\* get(): response = self.handle(request, org, request.user.profile)
handle_load(kind, p, o) ==
    /\ Len(procs) < MaxProcs
    /\ kind \in {"join", "leave"}
    /\ o \in DOMAIN orgs
    /\ procs' = Append(procs, Proc(kind, "check", p, o, profiles[p], 0))
    /\ UNCHANGED <<profiles, orgs, cache, clock, request, response>>

\* JoinOrganization.handle: the test and the two assignments to the profile
JoinOrganization_check(i) ==
    /\ procs[i].kind = "join" /\ procs[i].pc = "check"
    /\ procs' = IF procs[i].profile.organization # None
                THEN [procs EXCEPT ![i].pc = "message"]
                ELSE [procs EXCEPT ![i].pc = "save",
                                   ![i].profile.organization = procs[i].org,
                                   ![i].profile.organization_join_time = clock]
    /\ UNCHANGED <<profiles, orgs, cache, clock, request, response>>

\* LeaveOrganization.handle: the test and the two assignments to the profile
LeaveOrganization_check(i) ==
    /\ procs[i].kind = "leave" /\ procs[i].pc = "check"
    /\ procs' = IF procs[i].org # procs[i].profile.organization
                THEN [procs EXCEPT ![i].pc = "message"]
                ELSE [procs EXCEPT ![i].pc = "save",
                                   ![i].profile.organization = None,
                                   ![i].profile.organization_join_time = None]
    /\ UNCHANGED <<profiles, orgs, cache, clock, request, response>>

\* profile.save()
handle_save(i) ==
    /\ procs[i].pc = "save"
    /\ profiles' = [profiles EXCEPT ![procs[i].p] = procs[i].profile]
    /\ procs' = [procs EXCEPT ![i].pc = "delete"]
    /\ UNCHANGED <<orgs, cache, clock, request, response>>

\* cache.delete(make_template_fragment_key('org_member_count', (org.id,)))
handle_delete(i) ==
    /\ procs[i].pc = "delete"
    /\ cache' = [cache EXCEPT ![make_template_fragment_key(procs[i].org)] = Absent]
    /\ procs' = [procs EXCEPT ![i].pc = "redirect"]
    /\ UNCHANGED <<profiles, orgs, clock, request, response>>

\* the fragment reads its cache entry
render_get(o) ==
    /\ Len(procs) < MaxProcs
    /\ o \in DOMAIN orgs
    /\ procs' = Append(procs, Proc("render", IF cache[o] = Absent THEN "count" ELSE "hit",
                                   0, o, NoProfile, 0))
    /\ UNCHANGED <<profiles, orgs, cache, clock, request, response>>

\* on a miss the fragment counts the members of the organization
render_count(i) ==
    /\ procs[i].pc = "count"
    /\ procs' = [procs EXCEPT ![i].pc = "set",
                              ![i].count = MemberCount(profiles, procs[i].org)]
    /\ UNCHANGED <<profiles, orgs, cache, clock, request, response>>

\* and stores what it rendered
render_set(i) ==
    /\ procs[i].pc = "set"
    /\ cache' = [cache EXCEPT ![procs[i].org] = procs[i].count]
    /\ procs' = [procs EXCEPT ![i].pc = "rendered"]
    /\ UNCHANGED <<profiles, orgs, clock, request, response>>

\* timezone.now() moves on
Tick ==
    /\ clock < MaxClock
    /\ clock' = clock + 1
    /\ UNCHANGED <<profiles, orgs, cache, request, response, procs>>

NextH ==
    \/ \E k \in {"join", "leave"}, p \in Profiles, o \in OrgIds : handle_load(k, p, o)
    \/ \E i \in DOMAIN procs : JoinOrganization_check(i)
    \/ \E i \in DOMAIN procs : LeaveOrganization_check(i)
    \/ \E i \in DOMAIN procs : handle_save(i)
    \/ \E i \in DOMAIN procs : handle_delete(i)
    \/ \E o \in OrgIds : render_get(o)
    \/ \E i \in DOMAIN procs : render_count(i)
    \/ \E i \in DOMAIN procs : render_set(i)
    \/ Tick

SpecH == Init /\ [][NextH]_vars

Finished(i) == procs[i].pc \in {"message", "redirect", "hit", "rendered"}

====
